---------------------------- MODULE Spec2Model ----------------------------
(***************************************************************************)
(* ABI structures of aztec3::circuits::abis (FunctionSignature and         *)
(* PublicCircuitPublicInputs) and the Pedersen export boundary of          *)
(* barretenberg, as state machines.                                        *)
(*                                                                         *)
(* Four specifications share the variables:                                *)
(*   SpecSer      write / transport / read of a native structure           *)
(*   SpecHash     hash() of two native structures and of another kind      *)
(*   SpecCircuit  to_circuit_type, the two hash() instantiations,          *)
(*                set_public and the static_assert preconditions           *)
(*   SpecFFI      calls across the pedersen___ export boundary             *)
(*                                                                         *)
(* Scalars (uint32, fr, address) are integers.  TLC's integers are 32 bit  *)
(* signed, so every modelled value lies below 2^31; the byte encodings     *)
(* keep their width (4 bytes for uint32, 32 bytes for fr, big-endian).     *)
(***************************************************************************)
EXTENDS Integers, Sequences, FiniteSets, TLC

VARIABLES
    kind,       \* which structure template is under test
    x,          \* the native structure under test
    \* ---- serialization (SpecSer)
    pre,        \* the bytes the vector held before write
    buf,        \* std::vector<uint8_t>& buf
    wstatus,    \* outcome of write: "none" | "ok" | "ill_formed"
    delivered,  \* whether the transport handed a buffer to the reader
    rbuf,       \* the bytes the reader's pointer `it` points into
    it,         \* uint8_t const*& it, as an offset from the start of rbuf
    out,        \* the structure read() fills in
    rstatus,    \* outcome of read: "none" | "ok" | "crashed" | "ill_formed"
    touched,    \* per operation, the member names it visited, in order
    \* ---- hashing (SpecHash)
    y,          \* a second native structure of the same kind
    hx,         \* x.hash(): what it passed to compress and the result, or None
    hy,         \* y.hash(), likewise
    other,      \* a structure of another kind, given by its flattening
    hother,     \* other.hash(), or None
    \* ---- circuit representation (SpecCircuit)
    composer,   \* the constraint system: witnesses and public inputs
    cx,         \* to_circuit_type(x), or None
    ccx,        \* the result of to_circuit_type applied to cx, or None
    hcx,        \* cx.hash(): what it passed to compress and the result, or None
    attempts,   \* every representation-specific call made, with its outcome
    \* ---- Pedersen export boundary (SpecFFI)
    table,      \* the process-wide generator table, or None
    inits,      \* how many times pedersen___init has run
    history     \* the calls made so far: operation, arguments, return, output

serVars  == <<pre, buf, wstatus, delivered, rbuf, it, out, rstatus>>
hashVars == <<y, hx, hy, other, hother>>
circVars == <<composer, cx, ccx, hcx, attempts>>
ffiVars  == <<table, inits, history>>
vars == <<kind, x, touched, serVars, hashVars, circVars, ffiVars>>

\* an optional value: None, or Some(v), whose value is v[1]
None == <<>>
Some(v) == <<v>>

(***************************************************************************)
(* Bounds of the model.                                                    *)
(***************************************************************************)
\* the longest content a vector holds before write is called on it
MaxPrefix == 2
\* how many scalar slots of the sample PublicCircuitPublicInputs an instance
\* may differ in
MaxChanged == 1
\* how many calls cross the Pedersen export boundary in one run
MaxCalls == 4

(***************************************************************************)
(* Fixed-width encodings of serialize::read / serialize::write.            *)
(***************************************************************************)
\* the n bytes of v, most significant first (v < 2^31: bytes above the low four are 0)
BigEndian(v, n) == [i \in 1..n |-> IF n - i > 3 THEN 0 ELSE (v \div (256 ^ (n - i))) % 256]

\* the value of a big-endian byte string
RECURSIVE FromBigEndian(_)
FromBigEndian(bytes) ==
    IF Len(bytes) = 0 THEN 0
    ELSE 256 * FromBigEndian(SubSeq(bytes, 1, Len(bytes) - 1)) + bytes[Len(bytes)]

UINT32_BYTES == 4
BOOL_BYTES == 1
FR_BYTES == 32

write_uint32(b, v) == b \o BigEndian(v, UINT32_BYTES)
write_bool(b, v) == Append(b, IF v THEN 1 ELSE 0)
write_fr(b, v) == b \o BigEndian(v, FR_BYTES)

\* The reader holds a bare pointer: a byte at or past the end of the buffer is
\* whatever the memory behind the buffer holds (fill).
ByteAt(mem, fill, pos) == IF pos < Len(mem) THEN mem[pos + 1] ELSE fill
Bytes(mem, fill, pos, n) == [i \in 1..n |-> ByteAt(mem, fill, pos + i - 1)]

read_uint32(mem, fill, pos) ==
    [val |-> FromBigEndian(Bytes(mem, fill, pos, UINT32_BYTES)), it |-> pos + UINT32_BYTES]
read_bool(mem, fill, pos) ==
    [val |-> ByteAt(mem, fill, pos) # 0, it |-> pos + BOOL_BYTES]
read_fr(mem, fill, pos) ==
    [val |-> FromBigEndian(Bytes(mem, fill, pos, FR_BYTES)), it |-> pos + FR_BYTES]

(***************************************************************************)
(* The representation abstraction NCT: NativeTypes or CircuitTypes.        *)
(* A native scalar is its value.  A circuit scalar is a wire: a witness of *)
(* the composer, or the output of a compress gadget over wires.            *)
(***************************************************************************)
Native == "Native"
Circuit == "Circuit"

EmptyComposer == [witnesses |-> <<>>, public_inputs |-> <<>>]

Witness(i) == [tag |-> "witness", w |-> i]

\* fr(e) for a bool or uint32 member: 0/1 for a native bool, the value itself for
\* a native uint32 (2^32 is below the field modulus), the same wire in a circuit
fr_cast(rep, ty, e) ==
    IF rep = Circuit THEN e
    ELSE IF ty = "boolean" THEN (IF e THEN 1 ELSE 0)
    ELSE e

\* plonk::stdlib::types::to_ct(composer, e): witness the value of e
to_ct(c, ty, e) ==
    [composer |-> [c EXCEPT !.witnesses = Append(@, fr_cast(Native, ty, e))],
     val |-> Witness(Len(c.witnesses) + 1)]

\* to_ct of a std::array: element by element, in index order
to_ct_array(c, ty, arr) ==
    [composer |-> [c EXCEPT !.witnesses = @ \o [i \in 1..Len(arr) |-> fr_cast(Native, ty, arr[i])]],
     val |-> [i \in 1..Len(arr) |-> Witness(Len(c.witnesses) + i)]]

\* NCT::compress(inputs, index): the Pedersen compression, collision-free, kept
\* as the term it is applied to; in a circuit, a gadget over the input wires
NCT_compress(rep, inputs, index) ==
    IF rep = Circuit THEN [tag |-> "compress", inputs |-> inputs, index |-> index]
    ELSE [index |-> index, inputs |-> inputs]

\* the value a wire carries
RECURSIVE WireValue(_, _)
WireValue(c, wire) ==
    IF wire.tag = "witness" THEN c.witnesses[wire.w]
    ELSE NCT_compress(Native, [i \in 1..Len(wire.inputs) |-> WireValue(c, wire.inputs[i])],
                      wire.index)

WireValues(c, wires) == [i \in 1..Len(wires) |-> WireValue(c, wires[i])]

(***************************************************************************)
(* FunctionSignature                                                       *)
(***************************************************************************)
\* the member declarations, in declaration order, with their types
FunctionSignature_fields == <<"vk_index", "is_private", "is_constructor">>

FunctionSignature_type ==
    [vk_index |-> "uint32", is_private |-> "boolean", is_constructor |-> "boolean"]

U32Values == {0, 7, 8, 258, 16909060}

FunctionSignatures == [vk_index : U32Values, is_private : BOOLEAN, is_constructor : BOOLEAN]

FunctionSignature_default == [vk_index |-> 0, is_private |-> FALSE, is_constructor |-> FALSE]

(***************************************************************************)
(* PublicCircuitPublicInputs                                               *)
(***************************************************************************)
\* array lengths of constants.hpp, scaled down
CUSTOM_INPUTS_LENGTH == 2
CUSTOM_OUTPUTS_LENGTH == 2
EMITTED_EVENTS_LENGTH == 2
STATE_TRANSITIONS_LENGTH == 2
STATE_READS_LENGTH == 2
PUBLIC_CALL_STACK_LENGTH == 2
CONTRACT_DEPLOYMENT_CALL_STACK_LENGTH == 1
PARTIAL_L1_CALL_STACK_LENGTH == 2

\* the member declarations, in declaration order, with their types
PublicCircuitPublicInputs_fields ==
    <<"call_context",
      "custom_inputs", "custom_outputs",
      "emitted_events",
      "state_transitions", "state_reads",
      "public_call_stack", "contract_deployment_call_stack", "partial_l1_call_stack",
      "old_private_data_tree_root",
      "prover_address">>

PublicCircuitPublicInputs_type ==
    [call_context |-> "CallContext",
     custom_inputs |-> "fr[]", custom_outputs |-> "fr[]",
     emitted_events |-> "fr[]",
     state_transitions |-> "StateTransition[]", state_reads |-> "StateRead[]",
     public_call_stack |-> "fr[]", contract_deployment_call_stack |-> "fr[]",
     partial_l1_call_stack |-> "fr[]",
     old_private_data_tree_root |-> "fr",
     prover_address |-> "address"]

\* the sub-structures of call_context.hpp, state_transition.hpp, state_read.hpp
CallContext_fields == <<"msg_sender", "storage_contract_address">>
StateTransition_fields == <<"storage_slot", "old_value", "new_value">>
StateRead_fields == <<"storage_slot", "current_value">>

SubFields(ty) ==
    IF ty = "CallContext" THEN CallContext_fields
    ELSE IF ty = "StateTransition" THEN StateTransition_fields
    ELSE StateRead_fields

STATE_TRANSITION == "STATE_TRANSITION"
STATE_READ == "STATE_READ"
CALL_CONTEXT == "CALL_CONTEXT"

SubIndex(ty) ==
    IF ty = "CallContext" THEN CALL_CONTEXT
    ELSE IF ty = "StateTransition" THEN STATE_TRANSITION
    ELSE STATE_READ

ElemType(ty) ==
    IF ty = "StateTransition[]" THEN "StateTransition"
    ELSE IF ty = "StateRead[]" THEN "StateRead"
    ELSE "fr"

IsArray(ty) == ty \in {"fr[]", "StateTransition[]", "StateRead[]"}
IsScalar(ty) == ty \in {"fr", "address"}

\* ---- sample instances
Fill(n, v) == [i \in 1..n |-> v]

PublicCircuitPublicInputs_zero ==
    [call_context |-> [msg_sender |-> 0, storage_contract_address |-> 0],
     custom_inputs |-> Fill(CUSTOM_INPUTS_LENGTH, 0),
     custom_outputs |-> Fill(CUSTOM_OUTPUTS_LENGTH, 0),
     emitted_events |-> Fill(EMITTED_EVENTS_LENGTH, 0),
     state_transitions |-> Fill(STATE_TRANSITIONS_LENGTH,
                                [storage_slot |-> 0, old_value |-> 0, new_value |-> 0]),
     state_reads |-> Fill(STATE_READS_LENGTH, [storage_slot |-> 0, current_value |-> 0]),
     public_call_stack |-> Fill(PUBLIC_CALL_STACK_LENGTH, 0),
     contract_deployment_call_stack |-> Fill(CONTRACT_DEPLOYMENT_CALL_STACK_LENGTH, 0),
     partial_l1_call_stack |-> Fill(PARTIAL_L1_CALL_STACK_LENGTH, 0),
     old_private_data_tree_root |-> 0,
     prover_address |-> 0]

\* every scalar slot holds a value of its own
PublicCircuitPublicInputs_sample ==
    [call_context |-> [msg_sender |-> 1, storage_contract_address |-> 2],
     custom_inputs |-> [i \in 1..CUSTOM_INPUTS_LENGTH |-> 10 + i],
     custom_outputs |-> [i \in 1..CUSTOM_OUTPUTS_LENGTH |-> 20 + i],
     emitted_events |-> [i \in 1..EMITTED_EVENTS_LENGTH |-> 30 + i],
     state_transitions |-> [i \in 1..STATE_TRANSITIONS_LENGTH |->
        [storage_slot |-> 40 + i, old_value |-> 140 + i, new_value |-> 240 + i]],
     state_reads |-> [i \in 1..STATE_READS_LENGTH |->
        [storage_slot |-> 50 + i, current_value |-> 150 + i]],
     public_call_stack |-> [i \in 1..PUBLIC_CALL_STACK_LENGTH |-> 60 + i],
     contract_deployment_call_stack |-> [i \in 1..CONTRACT_DEPLOYMENT_CALL_STACK_LENGTH |-> 70 + i],
     partial_l1_call_stack |-> [i \in 1..PARTIAL_L1_CALL_STACK_LENGTH |-> 80 + i],
     old_private_data_tree_root |-> 91,
     prover_address |-> 92]

\* the scalar slots of a structure, as paths: <<member>>, <<member, i>>,
\* <<member, field>> or <<member, i, field>>
Slots(s, type) ==
    UNION { LET ty == type[f] IN
            IF IsScalar(ty) \/ ty \in {"uint32", "boolean"} THEN {<<f>>}
            ELSE IF ty = "fr[]" THEN {<<f, i>> : i \in 1..Len(s[f])}
            ELSE IF IsArray(ty)
              THEN {<<f, i, SubFields(ElemType(ty))[j]>> :
                        i \in 1..Len(s[f]), j \in 1..Len(SubFields(ElemType(ty)))}
            ELSE {<<f, SubFields(ty)[j]>> : j \in 1..Len(SubFields(ty))}
          : f \in DOMAIN s }

SlotValue(s, p) ==
    IF Len(p) = 1 THEN s[p[1]]
    ELSE IF Len(p) = 2 THEN s[p[1]][p[2]]
    ELSE s[p[1]][p[2]][p[3]]

SetSlot(s, p, v) ==
    IF Len(p) = 1 THEN [s EXCEPT ![p[1]] = v]
    ELSE IF Len(p) = 2 THEN [s EXCEPT ![p[1]][p[2]] = v]
    ELSE [s EXCEPT ![p[1]][p[2]][p[3]] = v]

\* the structure with another value in slot p
Change(s, type, p) ==
    SetSlot(s, p, IF type[p[1]] = "boolean" THEN ~SlotValue(s, p) ELSE SlotValue(s, p) + 300)

RECURSIVE ChangeAll(_, _, _)
ChangeAll(s, type, ps) ==
    IF ps = {} THEN s
    ELSE LET p == CHOOSE q \in ps : TRUE
         IN  ChangeAll(Change(s, type, p), type, ps \ {p})

\* the subsets of S of at most k elements
RECURSIVE SubsetsUpTo(_, _)
SubsetsUpTo(S, k) ==
    IF k = 0 THEN {{}}
    ELSE LET smaller == SubsetsUpTo(S, k - 1)
         IN  smaller \cup {q \cup {e} : q \in smaller, e \in S}

PublicCircuitPublicInputsSet ==
    {PublicCircuitPublicInputs_zero} \cup
    { ChangeAll(PublicCircuitPublicInputs_sample, PublicCircuitPublicInputs_type, ps) :
        ps \in SubsetsUpTo(Slots(PublicCircuitPublicInputs_sample, PublicCircuitPublicInputs_type),
                           MaxChanged) }

\* ---- serialization of the members
RECURSIVE write_struct(_, _, _)
\* write of a sub-structure: its scalar fields in declaration order
write_struct(b, fields, v) ==
    IF fields = <<>> THEN b
    ELSE write_struct(write_fr(b, v[Head(fields)]), Tail(fields), v)

RECURSIVE write_array(_, _, _)
\* serialize::write of a std::array: the elements in index order, no length prefix
write_array(b, ety, arr) ==
    IF arr = <<>> THEN b
    ELSE write_array(IF ety = "fr" THEN write_fr(b, Head(arr))
                     ELSE write_struct(b, SubFields(ety), Head(arr)),
                     ety, Tail(arr))

write_member(b, ty, v) ==
    IF ty = "uint32" THEN write_uint32(b, v)
    ELSE IF ty = "boolean" THEN write_bool(b, v)
    ELSE IF IsScalar(ty) THEN write_fr(b, v)
    ELSE IF IsArray(ty) THEN write_array(b, ElemType(ty), v)
    ELSE write_struct(b, SubFields(ty), v)

RECURSIVE write_members(_, _, _, _)
write_members(b, type, names, s) ==
    IF names = <<>> THEN b
    ELSE write_members(write_member(b, type[Head(names)], s[Head(names)]), type, Tail(names), s)

RECURSIVE read_struct(_, _, _, _, _)
read_struct(mem, fill, pos, fields, target) ==
    IF fields = <<>> THEN [it |-> pos, val |-> target]
    ELSE LET r == read_fr(mem, fill, pos)
         IN  read_struct(mem, fill, r.it, Tail(fields), [target EXCEPT ![Head(fields)] = r.val])

RECURSIVE read_array(_, _, _, _, _, _)
\* serialize::read of a std::array: as many elements as the target holds
read_array(mem, fill, pos, ety, target, i) ==
    IF i > Len(target) THEN [it |-> pos, val |-> target]
    ELSE LET r == IF ety = "fr" THEN read_fr(mem, fill, pos)
                  ELSE read_struct(mem, fill, pos, SubFields(ety), target[i])
         IN  read_array(mem, fill, r.it, ety, [target EXCEPT ![i] = r.val], i + 1)

read_member(mem, fill, pos, ty, target) ==
    IF ty = "uint32" THEN read_uint32(mem, fill, pos)
    ELSE IF ty = "boolean" THEN read_bool(mem, fill, pos)
    ELSE IF IsScalar(ty) THEN read_fr(mem, fill, pos)
    ELSE IF IsArray(ty) THEN read_array(mem, fill, pos, ElemType(ty), target, 1)
    ELSE read_struct(mem, fill, pos, SubFields(ty), target)

RECURSIVE read_members(_, _, _, _, _, _)
read_members(mem, fill, pos, type, names, target) ==
    IF names = <<>> THEN [it |-> pos, val |-> target]
    ELSE LET r == read_member(mem, fill, pos, type[Head(names)], target[Head(names)])
         IN  read_members(mem, fill, r.it, type, Tail(names),
                          [target EXCEPT ![Head(names)] = r.val])

\* a template that names a member the structure does not declare cannot be
\* instantiated: the call does not build
Declares(s, names) == \A i \in 1..Len(names) : names[i] \in DOMAIN s

\* the members read() names, in order
read_PublicCircuitPublicInputs_order ==
    <<"custom_inputs", "custom_outputs", "emitted_events", "emitted_ouputs",
      "state_transitions", "state_reads",
      "public_call_stack", "contract_deployment_call_stack", "partial_l1_call_stack",
      "old_private_data_tree_root",
      "prover_address">>

read_PublicCircuitPublicInputs(mem, fill, pos, target) ==
    IF ~Declares(target, read_PublicCircuitPublicInputs_order)
      THEN [ok |-> FALSE, it |-> pos, val |-> target]
    ELSE LET r == read_members(mem, fill, pos, PublicCircuitPublicInputs_type,
                               read_PublicCircuitPublicInputs_order, target)
         IN  [ok |-> TRUE, it |-> r.it, val |-> r.val]

\* the members write() names, in order
write_PublicCircuitPublicInputs_order ==
    <<"custom_inputs", "custom_outputs", "emitted_events", "emitted_ouputs",
      "state_transitions", "state_reads",
      "public_call_stack", "contract_deployment_call_stack", "partial_l1_call_stack",
      "old_private_data_tree_root",
      "prover_address">>

write_PublicCircuitPublicInputs(b, pis) ==
    IF ~Declares(pis, write_PublicCircuitPublicInputs_order)
      THEN [ok |-> FALSE, buf |-> b]
    ELSE [ok |-> TRUE,
          buf |-> write_members(b, PublicCircuitPublicInputs_type,
                                write_PublicCircuitPublicInputs_order, pis)]

\* ---- conversion of the members to circuit types
\* the position of a field in a field list
IndexOf(fields, f) == CHOOSE i \in 1..Len(fields) : fields[i] = f

\* the wires of a sub-structure whose fields are witnessed from index base + 1 on
StructWires(base, fields, v) == [f \in DOMAIN v |-> Witness(base + IndexOf(fields, f))]

\* to_circuit_type of a sub-structure: each scalar field witnessed, in
\* declaration order
to_circuit_type_struct(c, fields, v) ==
    [composer |-> [c EXCEPT !.witnesses = @ \o [i \in 1..Len(fields) |-> v[fields[i]]]],
     val |-> StructWires(Len(c.witnesses), fields, v)]

\* map(arr, to_circuit_type): element by element, in index order
map_to_circuit_type(c, ety, arr) ==
    LET fields == SubFields(ety)
        n == Len(fields)
    IN  [composer |-> [c EXCEPT !.witnesses =
                          @ \o [k \in 1..(Len(arr) * n) |->
                                    arr[((k - 1) \div n) + 1][fields[((k - 1) % n) + 1]]]],
         val |-> [i \in 1..Len(arr) |->
                    StructWires(Len(c.witnesses) + (i - 1) * n, fields, arr[i])]]

to_circuit_type_member(c, ty, v) ==
    IF IsScalar(ty) \/ ty \in {"uint32", "boolean"} THEN to_ct(c, ty, v)
    ELSE IF ty = "fr[]" THEN to_ct_array(c, "fr", v)
    ELSE IF IsArray(ty) THEN map_to_circuit_type(c, ElemType(ty), v)
    ELSE to_circuit_type_struct(c, SubFields(ty), v)

RECURSIVE to_circuit_type_members(_, _, _, _, _, _)
\* the initializer list of to_circuit_type: the i-th initializer, built from
\* member from[i] of s, initializes member into[i] of the converted structure
to_circuit_type_members(c, type, into, from, s, acc) ==
    IF from = <<>> THEN [composer |-> c, val |-> acc]
    ELSE LET h == to_circuit_type_member(c, type[Head(from)], s[Head(from)])
         IN  to_circuit_type_members(h.composer, type, Tail(into), Tail(from), s,
                                     [acc EXCEPT ![Head(into)] = h.val])

\* ---- flattening of the members for hash()
\* spread_arr_into_vec(arr, vec): the sizeof(arr) / sizeof(fr) elements of arr,
\* from &arr[0] on, inserted at the end of vec
spread_arr_into_vec(arr, vec) == vec \o SubSeq(arr, 1, Len(arr))

\* hash() of a sub-structure: its fields compressed under its own index
hash_struct(rep, ety, v) ==
    NCT_compress(rep, [i \in 1..Len(SubFields(ety)) |-> v[SubFields(ety)[i]]], SubIndex(ety))

\* map(arr, to_hashes)
map_to_hashes(rep, ety, arr) == [i \in 1..Len(arr) |-> hash_struct(rep, ety, arr[i])]

hash_member(rep, ty, v, vec) ==
    IF IsScalar(ty) \/ ty \in {"uint32", "boolean"} THEN Append(vec, fr_cast(rep, ty, v))
    ELSE IF ty = "fr[]" THEN spread_arr_into_vec(v, vec)
    ELSE IF IsArray(ty) THEN spread_arr_into_vec(map_to_hashes(rep, ElemType(ty), v), vec)
    ELSE Append(vec, hash_struct(rep, ty, v))

RECURSIVE hash_members(_, _, _, _, _)
hash_members(rep, type, names, s, vec) ==
    IF names = <<>> THEN vec
    ELSE hash_members(rep, type, Tail(names), s,
                      hash_member(rep, type[Head(names)], s[Head(names)], vec))

\* ---- marking the members public
RECURSIVE set_public_members(_, _, _, _, _)
\* fr(member).set_public() for each member named: its wire becomes the next
\* public input of the composer
set_public_members(rep, type, names, s, pub) ==
    IF names = <<>> THEN pub
    ELSE set_public_members(rep, type, Tail(names), s,
                            Append(pub, fr_cast(rep, type[Head(names)], s[Head(names)])))

(***************************************************************************)
(* FunctionSignature: to_circuit_type, set_public, hash, read, write       *)
(***************************************************************************)
\* a conversion that passes is_constructor where is_private belongs
to_circuit_type_FunctionSignature_order_swapped == <<"vk_index", "is_constructor", "is_private">>

\* the members the initializer list of to_circuit_type passes to to_ct, in order
to_circuit_type_FunctionSignature_order == <<"vk_index", "is_private", "is_constructor">>

\* static_assert(is_same<NativeTypes, NCT>): only the native instantiation builds
to_circuit_type_FunctionSignature(rep, fs, c) ==
    IF rep # Native THEN [ok |-> FALSE, composer |-> c, val |-> None]
    ELSE LET r == to_circuit_type_members(c, FunctionSignature_type, FunctionSignature_fields,
                                          to_circuit_type_FunctionSignature_order, fs, fs)
         IN  [ok |-> TRUE, composer |-> r.composer, val |-> Some(r.val)]

\* the members set_public marks, in order
set_public_FunctionSignature_order == <<"vk_index", "is_private", "is_constructor">>

\* set_public without its static_assert
set_public_FunctionSignature_unchecked(rep, fs, c) ==
    [ok |-> TRUE,
     composer |-> [c EXCEPT !.public_inputs =
            set_public_members(rep, FunctionSignature_type,
                               set_public_FunctionSignature_order, fs, @)]]

\* static_assert(!is_same<NativeTypes, NCT>): only the circuit instantiation builds
set_public_FunctionSignature(rep, fs, c) ==
    IF rep = Native THEN [ok |-> FALSE, composer |-> c]
    ELSE [ok |-> TRUE,
          composer |-> [c EXCEPT !.public_inputs =
                set_public_members(rep, FunctionSignature_type,
                                   set_public_FunctionSignature_order, fs, @)]]

FUNCTION_SIGNATURE == "FUNCTION_SIGNATURE"

\* the members hash() puts into inputs, in order
hash_FunctionSignature_order == <<"vk_index", "is_private", "is_constructor">>

hash_FunctionSignature(rep, fs) ==
    LET inputs == hash_members(rep, FunctionSignature_type, hash_FunctionSignature_order, fs, <<>>)
    IN  [inputs |-> inputs, index |-> FUNCTION_SIGNATURE,
         result |-> NCT_compress(rep, inputs, FUNCTION_SIGNATURE)]

\* the members read() names, in order
read_FunctionSignature_order == <<"vk_index", "is_private", "is_constructor">>

read_FunctionSignature(mem, fill, pos, target) ==
    IF ~Declares(target, read_FunctionSignature_order)
      THEN [ok |-> FALSE, it |-> pos, val |-> target]
    ELSE LET r == read_members(mem, fill, pos, FunctionSignature_type,
                               read_FunctionSignature_order, target)
         IN  [ok |-> TRUE, it |-> r.it, val |-> r.val]

\* a write that puts is_constructor before is_private
write_FunctionSignature_order_swapped == <<"vk_index", "is_constructor", "is_private">>

\* the members write() names, in order
write_FunctionSignature_order == <<"vk_index", "is_private", "is_constructor">>

write_FunctionSignature(b, fs) ==
    IF ~Declares(fs, write_FunctionSignature_order)
      THEN [ok |-> FALSE, buf |-> b]
    ELSE [ok |-> TRUE,
          buf |-> write_members(b, FunctionSignature_type, write_FunctionSignature_order, fs)]

(***************************************************************************)
(* PublicCircuitPublicInputs: to_circuit_type, hash                        *)
(***************************************************************************)
\* the members the initializer list of to_circuit_type converts, in order
to_circuit_type_PublicCircuitPublicInputs_order ==
    <<"call_context",
      "custom_inputs", "custom_outputs",
      "emitted_events",
      "state_transitions", "state_reads",
      "public_call_stack", "contract_deployment_call_stack", "partial_l1_call_stack",
      "old_private_data_tree_root",
      "prover_address">>

\* the members the initializers initialize: the first positionally, the others
\* by designator
to_circuit_type_PublicCircuitPublicInputs_into ==
    <<PublicCircuitPublicInputs_fields[1],
      "custom_inputs", "custom_outputs",
      "emitted_events",
      "state_transitions", "state_reads",
      "public_call_stack", "contract_deployment_call_stack", "partial_l1_call_stack",
      "old_private_data_tree_root",
      "prover_address">>

to_circuit_type_PublicCircuitPublicInputs(rep, pis, c) ==
    IF rep # Native THEN [ok |-> FALSE, composer |-> c, val |-> None]
    ELSE LET r == to_circuit_type_members(c, PublicCircuitPublicInputs_type,
                                          to_circuit_type_PublicCircuitPublicInputs_into,
                                          to_circuit_type_PublicCircuitPublicInputs_order, pis, pis)
         IN  [ok |-> TRUE, composer |-> r.composer, val |-> Some(r.val)]

PRIVATE_CIRCUIT_PUBLIC_INPUTS == "PRIVATE_CIRCUIT_PUBLIC_INPUTS"

\* the members hash() puts into inputs, in order (call_context is left out on
\* purpose: CallStackItem hashes it)
hash_PublicCircuitPublicInputs_order ==
    <<"custom_inputs", "custom_outputs",
      "emitted_events",
      "state_transitions", "state_reads",
      "public_call_stack", "contract_deployment_call_stack", "partial_l1_call_stack",
      "old_private_data_tree_root">>

hash_PublicCircuitPublicInputs(rep, pis) ==
    LET inputs == hash_members(rep, PublicCircuitPublicInputs_type,
                               hash_PublicCircuitPublicInputs_order, pis, <<>>)
    IN  [inputs |-> inputs, index |-> PRIVATE_CIRCUIT_PUBLIC_INPUTS,
         result |-> NCT_compress(rep, inputs, PRIVATE_CIRCUIT_PUBLIC_INPUTS)]

\* PrivateCircuitPublicInputs::hash(): the structure's flattening compressed
\* under the index of its kind
hash_PrivateCircuitPublicInputs(rep, flat) ==
    [inputs |-> flat, index |-> PRIVATE_CIRCUIT_PUBLIC_INPUTS,
     result |-> NCT_compress(rep, flat, PRIVATE_CIRCUIT_PUBLIC_INPUTS)]

(***************************************************************************)
(* The two structure kinds behind one interface.                           *)
(***************************************************************************)
FS == "FunctionSignature"
PCPI == "PublicCircuitPublicInputs"
Kinds == {FS, PCPI}

Instances(k) == IF k = FS THEN FunctionSignatures ELSE PublicCircuitPublicInputsSet
Default(k) == IF k = FS THEN FunctionSignature_default ELSE PublicCircuitPublicInputs_zero
Fields(k) == IF k = FS THEN FunctionSignature_fields ELSE PublicCircuitPublicInputs_fields
TypeOf(k) == IF k = FS THEN FunctionSignature_type ELSE PublicCircuitPublicInputs_type

write(k, b, s) ==
    IF k = FS THEN write_FunctionSignature(b, s) ELSE write_PublicCircuitPublicInputs(b, s)
read(k, mem, fill, pos, target) ==
    IF k = FS THEN read_FunctionSignature(mem, fill, pos, target)
    ELSE read_PublicCircuitPublicInputs(mem, fill, pos, target)
hash(k, rep, s) ==
    IF k = FS THEN hash_FunctionSignature(rep, s) ELSE hash_PublicCircuitPublicInputs(rep, s)
to_circuit_type(k, rep, s, c) ==
    IF k = FS THEN to_circuit_type_FunctionSignature(rep, s, c)
    ELSE to_circuit_type_PublicCircuitPublicInputs(rep, s, c)

Order(k, op) ==
    IF k = FS
      THEN [write |-> write_FunctionSignature_order, read |-> read_FunctionSignature_order,
            hash |-> hash_FunctionSignature_order,
            to_circuit_type |-> to_circuit_type_FunctionSignature_order,
            set_public |-> set_public_FunctionSignature_order][op]
    ELSE [write |-> write_PublicCircuitPublicInputs_order,
          read |-> read_PublicCircuitPublicInputs_order,
          hash |-> hash_PublicCircuitPublicInputs_order,
          to_circuit_type |-> to_circuit_type_PublicCircuitPublicInputs_order,
          set_public |-> <<>>][op]

\* the width of a member's fixed-width encoding
RECURSIVE SumOver(_, _)
SumOver(f, S) ==
    IF S = {} THEN 0 ELSE LET e == CHOOSE q \in S : TRUE IN f[e] + SumOver(f, S \ {e})

WidthOf(ty, v) ==
    IF ty = "uint32" THEN UINT32_BYTES
    ELSE IF ty = "boolean" THEN BOOL_BYTES
    ELSE IF IsScalar(ty) THEN FR_BYTES
    ELSE IF ty = "fr[]" THEN Len(v) * FR_BYTES
    ELSE IF IsArray(ty) THEN Len(v) * Len(SubFields(ElemType(ty))) * FR_BYTES
    ELSE Len(SubFields(ty)) * FR_BYTES

\* the fixed serialized length of a structure: the widths of its declared members
SerializedLength(k, s) == SumOver([f \in DOMAIN s |-> WidthOf(TypeOf(k)[f], s[f])], DOMAIN s)

(***************************************************************************)
(* Initial values of the variables a specification does not use.           *)
(***************************************************************************)
NoTouch == [write |-> <<>>, read |-> <<>>, hash |-> <<>>, to_circuit_type |-> <<>>,
            set_public |-> <<>>]

SerIdle ==
    /\ pre = <<>> /\ buf = <<>> /\ wstatus = "none" /\ delivered = FALSE /\ rbuf = <<>>
    /\ it = 0 /\ out = None /\ rstatus = "none"
HashIdle == y = None /\ hy = None /\ other = None /\ hother = None
CircIdle == composer = EmptyComposer /\ cx = None /\ ccx = None /\ hcx = None /\ attempts = {}
FFIIdle == table = None /\ inits = 0 /\ history = <<>>

(***************************************************************************)
(* x.hash() on the native structure: an action of every structure          *)
(* specification.                                                          *)
(***************************************************************************)
HashX ==
    /\ kind \in Kinds
    /\ hx = None
    /\ hx' = Some(hash(kind, Native, x))
    /\ touched' = [touched EXCEPT !.hash = Order(kind, "hash")]
    /\ UNCHANGED <<kind, x, pre, buf, wstatus, delivered, rbuf, it, out, rstatus>>
    /\ UNCHANGED <<y, hy, other, hother, circVars, ffiVars>>

(***************************************************************************)
(* SpecSer: write, transport, read.                                        *)
(***************************************************************************)
Prefix(n) == [i \in 1..n |-> 170 + i]

\* what the memory past the end of the reader's buffer may hold
Garbage == {0, 90}

InitSer ==
    /\ kind \in Kinds
    /\ x \in Instances(kind)
    /\ pre \in {Prefix(n) : n \in 0..MaxPrefix}
    /\ buf = pre
    /\ wstatus = "none"
    /\ delivered = FALSE
    /\ rbuf = <<>>
    /\ it = 0
    /\ out = Default(kind)
    /\ rstatus = "none"
    /\ touched = NoTouch
    /\ hx = None
    /\ HashIdle /\ CircIdle /\ FFIIdle

\* write(buf, x)
Write ==
    /\ wstatus = "none"
    /\ LET r == write(kind, buf, x)
       IN  /\ buf' = r.buf
           /\ wstatus' = IF r.ok THEN "ok" ELSE "ill_formed"
    /\ touched' = [touched EXCEPT !.write = Order(kind, "write")]
    /\ UNCHANGED <<kind, x, pre, delivered, rbuf, it, out, rstatus, hashVars, circVars, ffiVars>>

\* the transport hands the reader the first n bytes of the vector; the reader
\* takes its pointer to where the structure starts
Deliver(n) ==
    /\ wstatus # "none"
    /\ ~delivered
    /\ n \in Len(pre)..Len(buf)
    /\ rbuf' = SubSeq(buf, 1, n)
    /\ it' = Len(pre)
    /\ delivered' = TRUE
    /\ UNCHANGED <<kind, x, pre, buf, wstatus, out, rstatus, touched, hashVars, circVars, ffiVars>>

\* read(it, out): void, on a bare pointer.  Reading past the end of the buffer
\* is undefined: the process dies, or the read goes on over what lies there.
Read(fill, dies) ==
    /\ delivered
    /\ rstatus = "none"
    /\ LET r == read(kind, rbuf, fill, it, out)
       IN  IF ~r.ok
             THEN rstatus' = "ill_formed" /\ UNCHANGED <<it, out>>
           ELSE IF r.it > Len(rbuf) /\ dies
             THEN rstatus' = "crashed" /\ UNCHANGED <<it, out>>
           ELSE rstatus' = "ok" /\ it' = r.it /\ out' = r.val
    /\ touched' = [touched EXCEPT !.read = Order(kind, "read")]
    /\ UNCHANGED <<kind, x, pre, buf, wstatus, delivered, rbuf, hashVars, circVars, ffiVars>>

NextSer ==
    \/ Write
    \/ \E n \in 0..(MaxPrefix + 8) : Deliver(n)
    \/ \E fill \in Garbage, dies \in BOOLEAN : Read(fill, dies)
    \/ HashX

SpecSer == InitSer /\ [][NextSer]_vars

(***************************************************************************)
(* SpecHash: hash() of two native structures of one kind, and of a         *)
(* structure of another kind with the same flattening.                     *)
(***************************************************************************)
PRIV == "PrivateCircuitPublicInputs"

InitHash ==
    /\ kind \in Kinds
    /\ x \in Instances(kind)
    /\ y \in {Some(x)} \cup {Some(Change(x, TypeOf(kind), p)) : p \in Slots(x, TypeOf(kind))}
    /\ other = Some([kind |-> PRIV, flat |-> hash(kind, Native, x).inputs])
    /\ hx = None /\ hy = None /\ hother = None
    /\ touched = NoTouch
    /\ SerIdle /\ CircIdle /\ FFIIdle

\* y.hash()
HashY ==
    /\ y # None
    /\ hy = None
    /\ hy' = Some(hash(kind, Native, y[1]))
    /\ UNCHANGED <<kind, x, touched, serVars, y, hx, other, hother, circVars, ffiVars>>

\* other.hash()
HashOther ==
    /\ other # None
    /\ hother = None
    /\ hother' = Some(hash_PrivateCircuitPublicInputs(Native, other[1].flat))
    /\ UNCHANGED <<kind, x, touched, serVars, y, hx, hy, other, circVars, ffiVars>>

NextHash ==
    \/ HashX
    \/ HashY
    \/ HashOther

SpecHash == InitHash /\ [][NextHash]_vars

(***************************************************************************)
(* SpecCircuit: conversion to circuit types, hash() in both                *)
(* representations, set_public, and the calls the static_asserts reject.   *)
(***************************************************************************)
InitCircuit ==
    /\ kind \in Kinds
    /\ x \in Instances(kind)
    /\ hx = None
    /\ touched = NoTouch
    /\ composer = EmptyComposer
    /\ cx = None /\ ccx = None /\ hcx = None
    /\ attempts = {}
    /\ SerIdle /\ HashIdle /\ FFIIdle

Attempt(op, rep, ok) == [op |-> op, rep |-> rep, ok |-> ok]

Attempted(op, rep) == \E a \in attempts : a.op = op /\ a.rep = rep

\* cx = x.to_circuit_type(composer)
ToCircuitType ==
    /\ ~Attempted("to_circuit_type", Native)
    /\ LET r == to_circuit_type(kind, Native, x, composer)
       IN  /\ cx' = r.val
           /\ composer' = r.composer
           /\ attempts' = attempts \cup {Attempt("to_circuit_type", Native, r.ok)}
    /\ touched' = [touched EXCEPT !.to_circuit_type = Order(kind, "to_circuit_type")]
    /\ UNCHANGED <<kind, x, serVars, hashVars, ccx, hcx, ffiVars>>

\* ccx = cx.to_circuit_type(composer): the conversion applied a second time
ToCircuitTypeAgain ==
    /\ cx # None
    /\ ~Attempted("to_circuit_type", Circuit)
    /\ LET r == to_circuit_type(kind, Circuit, cx[1], composer)
       IN  /\ ccx' = r.val
           /\ composer' = r.composer
           /\ attempts' = attempts \cup {Attempt("to_circuit_type", Circuit, r.ok)}
    /\ UNCHANGED <<kind, x, serVars, hashVars, cx, hcx, touched, ffiVars>>

\* cx.hash()
HashCircuit ==
    /\ cx # None
    /\ hcx = None
    /\ hcx' = Some(hash(kind, Circuit, cx[1]))
    /\ UNCHANGED <<kind, x, serVars, hashVars, composer, cx, ccx, attempts, touched, ffiVars>>

\* cx.set_public()
SetPublic ==
    /\ kind = FS
    /\ cx # None
    /\ ~Attempted("set_public", Circuit)
    /\ LET r == set_public_FunctionSignature(Circuit, cx[1], composer)
       IN  /\ composer' = r.composer
           /\ attempts' = attempts \cup {Attempt("set_public", Circuit, r.ok)}
    /\ touched' = [touched EXCEPT !.set_public = Order(kind, "set_public")]
    /\ UNCHANGED <<kind, x, serVars, hashVars, cx, ccx, hcx, ffiVars>>

\* x.set_public(): on the native structure
SetPublicNative ==
    /\ kind = FS
    /\ ~Attempted("set_public", Native)
    /\ LET r == set_public_FunctionSignature(Native, x, composer)
       IN  /\ composer' = r.composer
           /\ attempts' = attempts \cup {Attempt("set_public", Native, r.ok)}
    /\ UNCHANGED <<kind, x, serVars, hashVars, cx, ccx, hcx, touched, ffiVars>>

NextCircuit ==
    \/ HashX
    \/ ToCircuitType
    \/ ToCircuitTypeAgain
    \/ HashCircuit
    \/ SetPublic
    \/ SetPublicNative

SpecCircuit == InitCircuit /\ [][NextCircuit]_vars

(***************************************************************************)
(* SpecFFI: the exported Pedersen operations.  Each returns a const char*: *)
(* null on success, with the result in the output buffer, or an error      *)
(* string.                                                                 *)
(***************************************************************************)
NULL == "null"
ERR_UNINITIALIZED == "generator table is not initialized"
ERR_MALFORMED == "malformed input buffer"

\* the generator-point table pedersen___init builds
GeneratorTable == "generators"

\* the exported operations other than pedersen___init
Operations == {"compress_fields", "compress", "compress_with_hash_index", "commit",
               "buffer_to_field"}

\* the input buffer of a call: two field elements
InputBuffers == {<<1, 2>>}
HashIndices == {0, 1}

\* the value an operation writes to its output buffer, as a term over the
\* generator table it reads
Pedersen(t, op, inputs, hash_index) ==
    [generators |-> t, op |-> op, inputs |-> inputs, hash_index |-> hash_index]

\* pedersen___init(): builds the table unless it is built; returns null
pedersen___init(t) ==
    [table |-> IF t = None THEN Some(GeneratorTable) ELSE t, ret |-> NULL]

\* an operation that does not look at whether the table is built
pedersen___operation_unguarded(t, op, inputs, hash_index, wellformed) ==
    IF ~wellformed THEN [ret |-> ERR_MALFORMED, out |-> None]
    ELSE [ret |-> NULL, out |-> Some(Pedersen(t, op, inputs, hash_index))]

\* an exported operation on a length-checked input buffer
pedersen___operation(t, op, inputs, hash_index, wellformed) ==
    IF t = None THEN [ret |-> ERR_UNINITIALIZED, out |-> None]
    ELSE IF ~wellformed THEN [ret |-> ERR_MALFORMED, out |-> None]
    ELSE [ret |-> NULL, out |-> Some(Pedersen(t, op, inputs, hash_index))]

InitFFI ==
    /\ table = None
    /\ inits = 0
    /\ history = <<>>
    /\ kind = None /\ x = None /\ hx = None /\ touched = NoTouch
    /\ SerIdle /\ HashIdle /\ CircIdle

CallInit ==
    /\ Len(history) < MaxCalls
    /\ LET r == pedersen___init(table)
       IN  /\ table' = r.table
           /\ inits' = inits + 1
           /\ history' = Append(history,
                [op |-> "init", inputs |-> <<>>, hash_index |-> 0, wellformed |-> TRUE,
                 ret |-> r.ret, out |-> None, table |-> r.table])
    /\ UNCHANGED <<kind, x, touched, serVars, hashVars, circVars>>

Call(op, inputs, hash_index, wellformed) ==
    /\ Len(history) < MaxCalls
    /\ LET r == pedersen___operation(table, op, inputs, hash_index, wellformed)
       IN  history' = Append(history,
                [op |-> op, inputs |-> inputs, hash_index |-> hash_index,
                 wellformed |-> wellformed, ret |-> r.ret, out |-> r.out, table |-> table])
    /\ UNCHANGED <<table, inits>>
    /\ UNCHANGED <<kind, x, touched, serVars, hashVars, circVars>>

NextFFI ==
    \/ CallInit
    \/ \E op \in Operations, inputs \in InputBuffers, wellformed \in BOOLEAN :
          \E hash_index \in (IF op = "compress_with_hash_index" THEN HashIndices ELSE {0}) :
              Call(op, inputs, hash_index, wellformed)

SpecFFI == InitFFI /\ [][NextFFI]_vars

(***************************************************************************)
(* Properties.                                                             *)
(***************************************************************************)
\* the members of a sequence
Range(seq) == {seq[i] : i \in 1..Len(seq)}

\* the members both a and b name come in the same order in a and in b
SameRelativeOrder(a, b) ==
    \A i, j \in 1..Len(a) : \A k, l \in 1..Len(b) :
        (a[i] = b[k] /\ a[j] = b[l] /\ i < j) => k < l

\* the reader was handed every byte of the vector
DeliveredWhole == delivered /\ rbuf = buf

\* the reader was handed fewer bytes than the structure's fixed length
DeliveredShort == delivered /\ Len(rbuf) - Len(pre) < SerializedLength(kind, x)

\* C1: a FunctionSignature written by write and read back by read from where it
\* was written equals the original in its three fields, and read leaves the
\* cursor exactly past the bytes write produced.
C1_RoundTrip ==
    (kind = FS /\ wstatus # "none" /\ DeliveredWhole /\ rstatus # "none")
        => /\ wstatus = "ok" /\ rstatus = "ok"
           /\ out.vk_index = x.vk_index
           /\ out.is_private = x.is_private
           /\ out.is_constructor = x.is_constructor
           /\ it = Len(buf)

\* C1 witness: the signature {7, true, false} written to an empty vector and read back
C1_Witness ==
    /\ kind = FS /\ pre = <<>> /\ DeliveredWhole /\ rstatus = "ok"
    /\ x = [vk_index |-> 7, is_private |-> TRUE, is_constructor |-> FALSE]
    /\ out = x
    /\ it = 6

\* C2: a PublicCircuitPublicInputs written by write and read back into a
\* default-constructed target equals the original in all eleven declared members.
C2_RoundTripAllFields ==
    (kind = PCPI /\ wstatus # "none" /\ DeliveredWhole /\ rstatus # "none")
        => /\ wstatus = "ok" /\ rstatus = "ok"
           /\ \A f \in Range(PublicCircuitPublicInputs_fields) : out[f] = x[f]

\* C3: x.hash() and to_circuit_type(x).hash() pass compress the same index and
\* the same sequence of values (the wires' witnessed values), so the value of
\* the circuit hash is the native hash.
C3_ConversionSoundness ==
    (hx # None /\ hcx # None)
        => /\ WireValues(composer, hcx[1].inputs) = hx[1].inputs
           /\ hcx[1].index = hx[1].index
           /\ WireValue(composer, hcx[1].result) = hx[1].result

\* C3 witness: a PublicCircuitPublicInputs with a value of its own in every slot,
\* hashed natively and, after conversion, in the circuit
C3_Witness ==
    /\ kind = PCPI /\ x = PublicCircuitPublicInputs_sample
    /\ hx # None /\ cx # None /\ hcx # None
    /\ Len(hcx[1].inputs) = Len(hx[1].inputs)

\* C4: two structures of one kind that differ in a member (other than the
\* call_context a PublicCircuitPublicInputs leaves out) have different hashes.
C4_DifferentFieldsDifferentHash ==
    (hx # None /\ hy # None /\ \E f \in DOMAIN x \ {"call_context"} : x[f] # y[1][f])
        => hx[1].result # hy[1].result

\* C5: structures of different kinds hash under different generator indices, so
\* with the same flattening they have different hashes.
C5_DomainSeparation ==
    (hx # None /\ hother # None /\ other[1].kind # kind /\ other[1].flat = hx[1].inputs)
        => /\ hx[1].index # hother[1].index
           /\ hx[1].result # hother[1].result

\* C6: read on a buffer shorter than the structure's fixed length reports a
\* decoding error, returns no structure and leaves the cursor inside the buffer
\* (stated for FunctionSignature).
C6_ShortBufferRejected ==
    (kind = FS /\ DeliveredShort /\ rstatus # "none")
        => /\ rstatus = "decoding_error"
           /\ it <= Len(rbuf)
           /\ out = FunctionSignature_default

\* C7: to_circuit_type succeeds on a native structure only and set_public on a
\* circuit structure only; a rejected call converts nothing, witnesses nothing
\* and marks no public input.
C7_PreconditionsEnforced ==
    /\ \A a \in attempts :
          a.ok <=> \/ (a.op = "to_circuit_type" /\ a.rep = Native)
                   \/ (a.op = "set_public" /\ a.rep = Circuit)
    /\ ccx = None
    /\ (cx # None) <=> Attempted("to_circuit_type", Native)
    /\ Len(composer.witnesses) = (IF cx = None THEN 0 ELSE Cardinality(Slots(x, TypeOf(kind))))
    /\ Len(composer.public_inputs) =
          (IF Attempted("set_public", Circuit) THEN Len(FunctionSignature_fields) ELSE 0)

\* C7 witness: both conversions and both set_public calls were made
C7_Witness ==
    /\ Attempted("to_circuit_type", Native) /\ Attempted("to_circuit_type", Circuit)
    /\ Attempted("set_public", Native) /\ Attempted("set_public", Circuit)
    /\ cx # None

\* whether pedersen___init returned null before call i
InitializedBefore(i) == \E j \in 1..(i - 1) : history[j].op = "init" /\ history[j].ret = NULL

\* C8: an operation called before pedersen___init returns an error string; after
\* init every well-formed call returns null; init called again leaves the table,
\* and with it the result of every later operation, as it was.
C8_InitProtocol ==
    \A i \in 1..Len(history) :
        LET h == history[i] IN
        /\ (h.op # "init" /\ ~InitializedBefore(i)) => h.ret # NULL
        /\ (h.op # "init" /\ InitializedBefore(i) /\ h.wellformed) => h.ret = NULL
        /\ h.op = "init" => h.ret = NULL
        /\ (h.op = "init" /\ InitializedBefore(i)) => h.table = history[i - 1].table
        /\ \A j \in 1..(i - 1) :
              (history[j].op = h.op /\ history[j].inputs = h.inputs
                 /\ history[j].hash_index = h.hash_index
                 /\ history[j].ret = NULL /\ h.ret = NULL)
                  => history[j].out = h.out

\* C8 witness: a call before init fails, init, init again, the same call succeeds
C8_Witness ==
    /\ Len(history) = 4
    /\ history[1].op = "compress" /\ history[1].ret # NULL
    /\ history[2].op = "init" /\ history[3].op = "init"
    /\ history[4].op = "compress" /\ history[4].ret = NULL /\ history[4].out # None
    /\ inits = 2

\* C9: every operation names the members in the one declaration order, and only
\* members the structure declares: exactly the three of a FunctionSignature; for
\* a PublicCircuitPublicInputs write and read name the same members, in the
\* order in which hash flattens them.
C9_FixedFieldOrder ==
    \A op \in DOMAIN touched :
        touched[op] # <<>> =>
            /\ Range(touched[op]) \subseteq Range(Fields(kind))
            /\ SameRelativeOrder(touched[op], Fields(kind))
            /\ kind = FS => touched[op] = FunctionSignature_fields
            /\ \A op2 \in DOMAIN touched :
                  touched[op2] # <<>> => SameRelativeOrder(touched[op], touched[op2])
            /\ (op = "write" /\ touched.read # <<>>) => touched.read = touched.write

\* C10: write leaves the bytes the vector held and appends as many bytes as the
\* widths of the structure's members add up to, whatever their values.
C10_WriteAppendsFixedLength ==
    wstatus # "none"
        => /\ wstatus = "ok"
           /\ SubSeq(buf, 1, Len(pre)) = pre
           /\ Len(buf) - Len(pre) = SerializedLength(kind, x)

=============================================================================
